---------------------------- MODULE Spec2Model ----------------------------
(***************************************************************************)
(* Model of the kjudge model generator (models/generate/main.go): the     *)
(* naming transformer, the key inference of TableFromToml, the clause     *)
(* builders, the templates of the generated accessors, the driver loop of *)
(* main, and the Write method the templates generate.                     *)
(*                                                                         *)
(* A Go string is a sequence of one-character strings.  A rendered text   *)
(* is a sequence of tokens; a token is a Go string: either an identifier  *)
(* computed by the generator (character by character) or a chunk of       *)
(* literal template text held in a one-element sequence.                  *)
(***************************************************************************)
EXTENDS Integers, Sequences, FiniteSets, TLC

VARIABLES
    tables,     \* TomlTables decoded by main: table name -> (column -> type)
    pc,         \* position of main: "loop", "done", "fatal"; "naming", "write"
    todo,       \* table names the range loop of main has not visited yet
    derived,    \* name -> Table returned by TableFromToml in main
    files,      \* name -> text of models/<name>_generated.go (os.Create'd)
    generated,  \* names whose loop iteration reached "Generated code for table"
    s,          \* argument of SnakeToGocase
    export,     \* argument of SnakeToGocase
    out,        \* result of SnakeToGocase, Unset before the call
    tbl,        \* Table whose generated Write method is run
    rec,        \* the record r of the generated Write: column -> value
    log,        \* statements db.Exec has run, in order
    hook,       \* what r.Verify() returned in the last Write
    ret         \* return value of the last Write

vars == <<tables, pc, todo, derived, files, generated, s, export, out,
          tbl, rec, log, hook, ret>>

-----------------------------------------------------------------------------
(* Bounds *)

MaxLen == 5          \* longest identifier given to SnakeToGocase
MaxTables == 2       \* most tables in a schema
MaxCols == 3         \* most columns in a table
MaxId == 2           \* largest identifier the storage assigns
MaxWrites == 3       \* most statements kept in the log

-----------------------------------------------------------------------------
(* Characters and Go strings *)

Lower == <<"a","b","c","d","e","f","g","h","i","j","k","l","m",
           "n","o","p","q","r","s","t","u","v","w","x","y","z">>
Upper == <<"A","B","C","D","E","F","G","H","I","J","K","L","M",
           "N","O","P","Q","R","S","T","U","V","W","X","Y","Z">>

IndexIn(seq, c) == CHOOSE i \in 1..Len(seq) : seq[i] = c

IsLower(c) == \E i \in 1..Len(Lower) : Lower[i] = c
IsUpper(c) == \E i \in 1..Len(Upper) : Upper[i] = c

\* the byte value of a character
Code(c) ==
    IF IsUpper(c) THEN 64 + IndexIn(Upper, c)
    ELSE IF c = "_" THEN 95
    ELSE IF IsLower(c) THEN 96 + IndexIn(Lower, c)
    ELSE 45

\* unicode.ToTitle on one character
ToTitle(c) == IF IsLower(c) THEN Upper[IndexIn(Lower, c)] ELSE c

\* isSeparator of strings.Title: letters, digits and underscore are not
IsSeparator(c) == ~(IsLower(c) \/ IsUpper(c) \/ c = "_")

\* strings.Title: upper-cases the first letter of every word
RECURSIVE TitleFrom(_, _)
TitleFrom(str, prevSep) ==
    IF str = <<>> THEN <<>>
    ELSE <<(IF prevSep THEN ToTitle(Head(str)) ELSE Head(str))>>
         \o TitleFrom(Tail(str), IsSeparator(Head(str)))

Title(str) == TitleFrom(str, TRUE)

\* strings.Split(str, "_"): cur is the segment being scanned
RECURSIVE SplitFrom(_, _)
SplitFrom(str, cur) ==
    IF str = <<>> THEN <<cur>>
    ELSE IF Head(str) = "_" THEN <<cur>> \o SplitFrom(Tail(str), <<>>)
    ELSE SplitFrom(Tail(str), Append(cur, Head(str)))

Split(str) == SplitFrom(str, <<>>)

\* the comparison of Go strings: byte-wise lexicographic
RECURSIVE StrLess(_, _)
StrLess(a, b) ==
    IF b = <<>> THEN FALSE
    ELSE IF a = <<>> THEN TRUE
    ELSE IF Code(Head(a)) # Code(Head(b)) THEN Code(Head(a)) < Code(Head(b))
    ELSE StrLess(Tail(a), Tail(b))

HasSuffix(str, suf) ==
    /\ Len(str) >= Len(suf)
    /\ SubSeq(str, Len(str) - Len(suf) + 1, Len(str)) = suf

\* strings.Join of a list of Go strings: the items with sep between them
RECURSIVE Join(_, _)
Join(list, sep) ==
    IF list = <<>> THEN <<>>
    ELSE IF Len(list) = 1 THEN <<list[1]>>
    ELSE <<list[1], sep>> \o Join(Tail(list), sep)

-----------------------------------------------------------------------------
(* Naming transformer *)

ID == <<"I", "D">>
id == <<"i", "d">>
SufID == <<"_", "i", "d">>

\* the loop body of SnakeToGocase without the special case of "id"
PartNoID(i, part, exp) ==
    IF i = 1 /\ ~exp THEN part ELSE Title(part)

\* the loop body of SnakeToGocase: the text written for part i (from 1)
Part(i, part, exp) ==
    IF i = 1 /\ ~exp THEN part
    ELSE IF part = id THEN ID
    ELSE Title(part)

RECURSIVE Build(_, _, _)
Build(parts, i, exp) ==
    IF i > Len(parts) THEN <<>>
    ELSE Part(i, parts[i], exp) \o Build(parts, i + 1, exp)

SnakeToGocase(str, exp) == Build(Split(str), 1, exp)

param(str) == SnakeToGocase(str, FALSE)
field(str) == SnakeToGocase(str, TRUE)

\* StructName: drops the last character; a slice of an empty name panics
StructNamePanics(tableName) == Len(tableName) = 0
StructName(tableName) ==
    SnakeToGocase(SubSeq(tableName, 1, Len(tableName) - 1), TRUE)

ForeignKey(keyID) ==
    SnakeToGocase(SubSeq(keyID, 1, Len(keyID) - Len(SufID)), TRUE)

-----------------------------------------------------------------------------
(* Key inference *)

int == <<"i", "n", "t">>
text == <<"t", "e", "x", "t">>

EmptyMap == [k \in {} |-> <<>>]

\* the keys of map k in the order the runtime happens to iterate it: ord
\* enumerates the keys of the table's columns, k is one of its sub-maps
Keys(k, ord) == SelectSeq(ord, LAMBDA key : key \in DOMAIN k)

\* the range loop of TableFromToml: fks after visiting ord[i..]
RECURSIVE ScanForeignKeys(_, _, _, _, _)
ScanForeignKeys(tbls, t, ord, i, fks) ==
    IF i > Len(ord) THEN fks
    ELSE LET fld == ord[i]
             ref == SubSeq(fld, 1, Len(fld) - Len(SufID)) \o <<"s">>
         IN  IF HasSuffix(fld, SufID) /\ ref \in DOMAIN tbls
             THEN ScanForeignKeys(tbls, t, ord, i + 1, (fld :> t[fld]) @@ fks)
             ELSE ScanForeignKeys(tbls, t, ord, i + 1, fks)

\* TableFromToml with the id override dropped: keys stay the foreign keys
TableFromTomlNoOverride(tbls, name, t, ord) ==
    LET fks == ScanForeignKeys(tbls, t, Keys(t, ord), 1, EmptyMap)
    IN  [Name |-> name,
         Upsert |-> IF id \in DOMAIN t THEN ~(t[id] = int) ELSE TRUE,
         Fields |-> t,
         PrimaryKeys |-> fks,
         ForeignKeys |-> fks]

TableFromToml(tbls, name, t, ord) ==
    LET fks == ScanForeignKeys(tbls, t, Keys(t, ord), 1, EmptyMap)
        hasID == id \in DOMAIN t
    IN  [Name |-> name,
         Upsert |-> IF hasID THEN ~(t[id] = int) ELSE TRUE,
         Fields |-> t,
         PrimaryKeys |-> IF hasID THEN (id :> t[id]) ELSE fks,
         ForeignKeys |-> fks]

\* FieldsWithoutID without its test: the id stays in
FieldsWithID(t) == t.Fields

\* Table.FieldsWithoutID
FieldsWithoutID(t) ==
    [fld \in {f \in DOMAIN t.Fields : f # id} |-> t.Fields[fld]]

-----------------------------------------------------------------------------
(* Clause builder *)

\* sort.Sort(sort.StringSlice(v)): insertion of x into a sorted list
RECURSIVE Insert(_, _)
Insert(x, sorted) ==
    IF sorted = <<>> THEN <<x>>
    ELSE IF StrLess(x, Head(sorted)) THEN <<x>> \o sorted
    ELSE <<Head(sorted)>> \o Insert(x, Tail(sorted))

RECURSIVE Sort(_)
Sort(v) == IF v = <<>> THEN <<>> ELSE Insert(Head(v), Sort(Tail(v)))

\* sortKeys with the sort.Sort call dropped
sortKeysUnsorted(k, ord) == Keys(k, ord)

sortKeys(k, ord) == Sort(Keys(k, ord))

Lit(chunk) == <<chunk>>
Mark == Lit("?")
Comma == Lit(", ")
Eq == Lit(" = ")

\* JoinCondition: "key = ?" for every key, sep between them
RECURSIVE ConditionOf(_, _, _)
ConditionOf(keys, sep, first) ==
    IF keys = <<>> THEN <<>>
    ELSE (IF first THEN <<>> ELSE <<sep>>)
         \o <<Head(keys), Eq, Mark>>
         \o ConditionOf(Tail(keys), sep, FALSE)

JoinCondition(keys, sep, ord) == ConditionOf(sortKeys(keys, ord), sep, TRUE)

\* the slice s of JoinArguments
ArgumentOf(key, structName) ==
    IF structName = <<>> THEN SnakeToGocase(key, FALSE)
    ELSE IF structName = <<"-">> THEN key
    ELSE structName \o <<".">> \o SnakeToGocase(key, TRUE)

JoinArguments(keys, structName, ord) ==
    LET sorted == sortKeys(keys, ord)
    IN  Join([i \in 1..Len(sorted) |-> ArgumentOf(sorted[i], structName)],
             Comma)

\* Marks: one mark per key of the map, whatever the order
Marks(keys, ord) ==
    LET v == Keys(keys, ord)
    IN  Join([i \in 1..Len(v) |-> Mark], Comma)

-----------------------------------------------------------------------------
(* Templates.  A {{range}} over a map visits its keys in sorted order     *)
(* (text/template), whatever order the runtime iterates the map in.       *)

RangeKeys(m, ord) == Sort(Keys(m, ord))

Get == <<"G", "e", "t">>
Recv == <<"r">>
Raw == <<"-">>
NoStruct == <<>>

\* the delimiters of a database call in the generated code
OpenGet == Lit("db.Get(&result, \"")
OpenSelect == Lit("db.Select(&result, \"")
OpenExec == Lit("db.Exec(\"")
CloseSQL == Lit("\", ")
CloseCall == Lit(")")

Call(open, sql, args) == <<open>> \o sql \o <<CloseSQL>> \o args \o <<CloseCall>>

\* TableTemplate, the struct declaration ({tick} is the back quote $tick)
RECURSIVE StructFields(_, _)
StructFields(t, flds) ==
    IF flds = <<>> THEN <<>>
    ELSE <<Lit(" "), field(Head(flds)), Lit(" "), t.Fields[Head(flds)],
           Lit(" {tick}db:\""), Head(flds), Lit("\"{tick}")>>
         \o StructFields(t, Tail(flds))

StructDecl(t, ord) ==
    <<Lit("// "), StructName(t.Name),
      Lit(" is the struct generated from table \""), t.Name,
      Lit("\". type "), StructName(t.Name), Lit(" struct {")>>
    \o StructFields(t, RangeKeys(t.Fields, ord))
    \o <<Lit(" } ")>>

\* TableTemplate, the primary key getter
RECURSIVE GetterParams(_, _)
GetterParams(t, pks) ==
    IF pks = <<>> THEN <<>>
    ELSE <<Comma, param(Head(pks)), Lit(" "), t.PrimaryKeys[Head(pks)]>>
         \o GetterParams(t, Tail(pks))

GetSQL(t, ord) ==
    <<Lit("SELECT * FROM "), t.Name, Lit(" WHERE ")>>
    \o JoinCondition(t.PrimaryKeys, Lit(" AND "), ord)

GetArgs(t, ord) == JoinArguments(t.PrimaryKeys, NoStruct, ord)

Getter(t, ord) ==
    <<Lit("func "), Get \o StructName(t.Name), Lit("(db db.DBContext")>>
    \o GetterParams(t, RangeKeys(t.PrimaryKeys, ord))
    \o <<Lit(") ("), Lit("*"), StructName(t.Name), Lit(", error) { var result "),
         StructName(t.Name), Lit(" if err := ")>>
    \o Call(OpenGet, GetSQL(t, ord), GetArgs(t, ord))
    \o <<Lit("; err != nil { return nil, errors.WithStack(err) } return &result, nil } ")>>

\* TableTemplate, the foreign key getters
\* FkGetterName with a "By" after "Get"
FkGetterNameBy(t, fk) ==
    Get \o <<"B", "y">> \o ForeignKey(fk) \o StructName(t.Name) \o <<"s">>

FkGetterName(t, fk) == Get \o ForeignKey(fk) \o StructName(t.Name) \o <<"s">>

FkSQL(t, fk) == <<Lit("SELECT * FROM "), t.Name, Lit(" WHERE "), fk, Eq, Mark>>

FkGetter(t, fk) ==
    <<Lit("func "), FkGetterName(t, fk), Lit("(db db.DBContext, "),
      param(fk), Lit(" "), t.ForeignKeys[fk],
      Lit(") ([]*"), StructName(t.Name), Lit(", error) { var result []*"),
      StructName(t.Name), Lit(" if err := ")>>
    \o Call(OpenSelect, FkSQL(t, fk), <<param(fk)>>)
    \o <<Lit("; err != nil { return nil, errors.WithStack(err) } return result, nil } ")>>

RECURSIVE FkGetters(_, _)
FkGetters(t, fks) ==
    IF fks = <<>> THEN <<>>
    ELSE FkGetter(t, Head(fks)) \o FkGetters(t, Tail(fks))

\* UpsertTemplate
\* UpsertSQL with a SET list that leaves the primary keys out
UpsertSQLSetNonKeys(t, ord) ==
    <<Lit("INSERT INTO "), t.Name, Lit("(")>>
    \o JoinArguments(t.Fields, Raw, ord)
    \o <<Lit(") VALUES (")>>
    \o Marks(t.Fields, ord)
    \o <<Lit(") ON CONFLICT (")>>
    \o JoinArguments(t.PrimaryKeys, Raw, ord)
    \o <<Lit(") DO UPDATE SET ")>>
    \o JoinCondition([c \in DOMAIN t.Fields \ DOMAIN t.PrimaryKeys |-> t.Fields[c]],
                     Comma, ord)

UpsertSQL(t, ord) ==
    <<Lit("INSERT INTO "), t.Name, Lit("(")>>
    \o JoinArguments(t.Fields, Raw, ord)
    \o <<Lit(") VALUES (")>>
    \o Marks(t.Fields, ord)
    \o <<Lit(") ON CONFLICT (")>>
    \o JoinArguments(t.PrimaryKeys, Raw, ord)
    \o <<Lit(") DO UPDATE SET ")>>
    \o JoinCondition(t.Fields, Comma, ord)

UpsertArgs(t, ord) ==
    JoinArguments(t.Fields, Recv, ord) \o <<Comma>>
    \o JoinArguments(t.Fields, Recv, ord)

WriteHead(t) ==
    <<Lit("func (r *"), StructName(t.Name),
      Lit(") Write(db db.DBContext) error { if err := r.Verify(); err != nil { return err } ")>>

UpsertTemplate(t, ord) ==
    WriteHead(t) \o <<Lit("_, err := ")>>
    \o Call(OpenExec, UpsertSQL(t, ord), UpsertArgs(t, ord))
    \o <<Lit(" return errors.WithStack(err) } ")>>

\* UpdateOrInsertTemplate
InsertSQL(t, ord) ==
    <<Lit("INSERT INTO "), t.Name, Lit("(")>>
    \o JoinArguments(FieldsWithoutID(t), Raw, ord)
    \o <<Lit(") VALUES (")>>
    \o Marks(FieldsWithoutID(t), ord)
    \o <<Lit(")")>>

\* InsertArgs binding every field, the id included
InsertArgsAll(t, ord) == JoinArguments(t.Fields, Recv, ord)

InsertArgs(t, ord) == JoinArguments(FieldsWithoutID(t), Recv, ord)

UpdateSQL(t, ord) ==
    <<Lit("UPDATE "), t.Name, Lit(" SET ")>>
    \o JoinCondition(t.Fields, Comma, ord)
    \o <<Lit(" WHERE ")>>
    \o JoinCondition(t.PrimaryKeys, Lit(" AND "), ord)

UpdateArgs(t, ord) ==
    JoinArguments(t.Fields, Recv, ord) \o <<Comma>>
    \o JoinArguments(t.PrimaryKeys, Recv, ord)

\* {{if eq (index .Fields "id") "int"}}: a missing key indexes to ""
HasIntID(t) == id \in DOMAIN t.Fields /\ t.Fields[id] = int

UpdateOrInsertTemplate(t, ord) ==
    WriteHead(t)
    \o (IF HasIntID(t)
        THEN <<Lit("if r.ID == 0 { res, err := ")>>
             \o Call(OpenExec, InsertSQL(t, ord), InsertArgs(t, ord))
             \o <<Lit(" if err != nil { return errors.WithStack(err) } id, err := res.LastInsertId() if err != nil { return errors.WithStack(err) } r.ID = int(id) return nil } ")>>
        ELSE <<>>)
    \o <<Lit("_, err := ")>>
    \o Call(OpenExec, UpdateSQL(t, ord), UpdateArgs(t, ord))
    \o <<Lit(" return errors.WithStack(err) } ")>>

\* TableTemplate, the Delete method
DeleteSQL(t, ord) ==
    <<Lit("DELETE FROM "), t.Name, Lit(" WHERE ")>>
    \o JoinCondition(t.PrimaryKeys, Lit(" AND "), ord)

DeleteArgs(t, ord) == JoinArguments(t.PrimaryKeys, Recv, ord)

DeleteMethod(t, ord) ==
    <<Lit("func (r *"), StructName(t.Name),
      Lit(") Delete(db db.DBContext) error { _, err := ")>>
    \o Call(OpenExec, DeleteSQL(t, ord), DeleteArgs(t, ord))
    \o <<Lit(" return errors.WithStack(err) } ")>>

TableTemplate(t, ord) ==
    StructDecl(t, ord)
    \o Getter(t, ord)
    \o FkGetters(t, RangeKeys(t.ForeignKeys, ord))
    \o (IF t.Upsert THEN UpsertTemplate(t, ord)
        ELSE UpdateOrInsertTemplate(t, ord))
    \o DeleteMethod(t, ord)

\* FileTemplate up to the {{template "table" .}} call
FileHead ==
    <<Lit("// Generated by \"git.nkagami.me/natsukagami/kjudge/models/generate\". DO NOT EDIT. package models import ( \"database/sql\" \"github.com/pkg/errors\" \"git.nkagami.me/natsukagami/kjudge/db\" ) ")>>

FileTemplate(t, ord) == FileHead \o TableTemplate(t, ord)

\* t.Execute fails when a template function panics: StructName on ""
ExecuteFails(t) == StructNamePanics(t.Name)

-----------------------------------------------------------------------------
(* The schemas main may decode from models/models.toml *)

users == <<"u", "s", "e", "r", "s">>
posts == <<"p", "o", "s", "t", "s">>
NoName == <<>>
user_id == <<"u", "s", "e", "r", "_", "i", "d">>
post_id == <<"p", "o", "s", "t", "_", "i", "d">>
body == <<"b", "o", "d", "y">>

TableNames == {users, posts, NoName}
ColNames == {id, user_id, post_id, body}

ColTypes(c) ==
    IF c = id THEN {int, text} ELSE IF c = body THEN {text} ELSE {int}

RawTables ==
    UNION {{t \in [D -> {int, text}] : \A c \in D : t[c] \in ColTypes(c)} :
           D \in {D \in SUBSET ColNames : Cardinality(D) <= MaxCols}}

\* a table named "" fails to render whatever its columns: two of them do
TablesOf(n) == IF n = NoName THEN {EmptyMap, (id :> int)} ELSE RawTables

Schemas ==
    UNION {{sch \in [T -> RawTables \cup {EmptyMap}] :
               \A n \in T : sch[n] \in TablesOf(n)} :
           T \in {T \in SUBSET TableNames : Cardinality(T) <= MaxTables}}

\* the orders in which the runtime may iterate a map with key set S
Orders(S) ==
    {o \in [1..Cardinality(S) -> S] :
        \A i, j \in 1..Cardinality(S) : o[i] = o[j] => i = j}

Unset == <<"unset">>

\* an error value is a list of strings, nil the empty one
Nil == <<>>

-----------------------------------------------------------------------------
(* main: one iteration of the range loop over the tables.  ord is the     *)
(* order in which the runtime iterates the maps of this table.            *)

Handle(name, ord) ==
    /\ pc = "loop"
    /\ name \in todo
    /\ LET table == TableFromToml(tables, name, tables[name], ord)
       IN  /\ derived' = (name :> table) @@ derived
           /\ todo' = todo \ {name}
           /\ IF ExecuteFails(table)
              THEN \* log.Fatal(err): the file is created, the run is over
                   /\ files' = (name :> FileHead) @@ files
                   /\ generated' = generated
                   /\ pc' = "fatal"
              ELSE /\ files' = (name :> FileTemplate(table, ord)) @@ files
                   /\ generated' = generated \cup {name}
                   /\ pc' = pc
    /\ UNCHANGED <<tables, s, export, out, tbl, rec, log, hook, ret>>

\* main returns when the range loop has visited every table
Return ==
    /\ pc = "loop"
    /\ todo = {}
    /\ pc' = "done"
    /\ UNCHANGED <<tables, todo, derived, files, generated, s, export, out,
                   tbl, rec, log, hook, ret>>

Init ==
    /\ tables \in Schemas
    /\ pc = "loop"
    /\ todo = DOMAIN tables
    /\ derived = EmptyMap
    /\ files = EmptyMap
    /\ generated = {}
    /\ s = <<>>
    /\ export = FALSE
    /\ out = Unset
    /\ tbl = Unset
    /\ rec = EmptyMap
    /\ log = <<>>
    /\ hook = Nil
    /\ ret = Nil

Next ==
    \/ \E name \in DOMAIN tables :
          \E ord \in Orders(DOMAIN tables[name]) : Handle(name, ord)
    \/ Return

Spec == Init /\ [][Next]_vars

-----------------------------------------------------------------------------
(* Reading a generated file back *)

Min(S) == CHOOSE x \in S : \A y \in S : x <= y

IsOpen(tok) == tok \in {OpenGet, OpenSelect, OpenExec}

\* the database call that opens at token i of txt
CallAt(txt, i) ==
    LET closeSQL == Min({j \in i + 1..Len(txt) : txt[j] = CloseSQL})
        closeCall == Min({j \in closeSQL + 1..Len(txt) : txt[j] = CloseCall})
    IN  [open |-> txt[i],
         sql |-> SubSeq(txt, i + 1, closeSQL - 1),
         args |-> SelectSeq(SubSeq(txt, closeSQL + 1, closeCall - 1),
                            LAMBDA tok : tok # Comma)]

CallsOf(txt) == {CallAt(txt, i) : i \in {i \in 1..Len(txt) : IsOpen(txt[i])}}

\* the tokens of txt strictly between the first from and the next to
Between(txt, from, to) ==
    IF \E i \in 1..Len(txt) : txt[i] = from
    THEN LET a == Min({i \in 1..Len(txt) : txt[i] = from})
             b == Min({j \in a + 1..Len(txt) + 1 :
                          j = Len(txt) + 1 \/ txt[j] = to})
         IN  SelectSeq(SubSeq(txt, a + 1, b - 1), LAMBDA tok : tok # Comma)
    ELSE <<>>

\* the columns of the "col = ?" clauses of a token list, in order
RECURSIVE EqColumnsFrom(_, _)
EqColumnsFrom(txt, i) ==
    IF i >= Len(txt) THEN <<>>
    ELSE IF txt[i + 1] = Eq THEN <<txt[i]>> \o EqColumnsFrom(txt, i + 1)
    ELSE EqColumnsFrom(txt, i + 1)

EqColumns(txt) == EqColumnsFrom(txt, 1)

NoColumn == <<"?">>

\* the column every placeholder of a statement stands for, in order: the
\* column of its "col = ?" clause, or for the j-th mark of a VALUES list
\* the j-th column of the INSERT column list
RECURSIVE HolesFrom(_, _, _)
HolesFrom(sql, i, nValues) ==
    IF i > Len(sql) THEN <<>>
    ELSE IF sql[i] # Mark THEN HolesFrom(sql, i + 1, nValues)
    ELSE IF i > 2 /\ sql[i - 1] = Eq
         THEN <<sql[i - 2]>> \o HolesFrom(sql, i + 1, nValues)
    ELSE LET cols == Between(sql, Lit("("), Lit(") VALUES ("))
         IN  <<(IF nValues + 1 <= Len(cols) THEN cols[nValues + 1]
                ELSE NoColumn)>>
             \o HolesFrom(sql, i + 1, nValues + 1)

HoleColumns(sql) == HolesFrom(sql, 1, 0)

\* the struct field a generated file declares for column c
DeclaredField(txt, c) ==
    LET i == Min({i \in 5..Len(txt) :
                     txt[i - 1] = Lit(" {tick}db:\"") /\ txt[i] = c})
    IN  txt[i - 4]

\* the get-by-relation functions of a file: name and parameter
FkFuncs(txt) ==
    {[name |-> txt[i + 1], param |-> txt[i + 3]] :
        i \in {i \in 1..Len(txt) - 3 :
                 txt[i] = Lit("func ") /\ txt[i + 2] = Lit("(db db.DBContext, ")}}

NumFkFuncs(txt) ==
    Cardinality({i \in 1..Len(txt) - 3 :
                   txt[i] = Lit("func ") /\ txt[i + 2] = Lit("(db db.DBContext, ")})

\* the Write statements of a file
WriteCalls(txt) ==
    {c \in CallsOf(txt) : c.open = OpenExec /\ c.sql[1] # Lit("DELETE FROM ")}

Range(seq) == {seq[i] : i \in 1..Len(seq)}

-----------------------------------------------------------------------------
(* Claims about the generator run *)

\* the inference rule: column c of a table of schema tbls is a foreign key
\* when it is the singular of a table name of the schema followed by _id
RuleForeignKey(tbls, c) ==
    \E tn \in DOMAIN tbls :
        /\ Len(tn) > 0
        /\ tn[Len(tn)] = "s"
        /\ c = SubSeq(tn, 1, Len(tn) - 1) \o <<"_", "i", "d">>

RuleForeignKeys(tbls, t) == {c \in DOMAIN t : RuleForeignKey(tbls, c)}

\* C1: every table the run generated a file for has a non-empty
\* primaryKeys (a table without an inferable key is never rendered).
C1_RenderedHasPrimaryKey ==
    \A n \in generated : DOMAIN derived[n].PrimaryKeys # {}

C3_Deterministic ==
    \A n \in generated :
        \A ord \in Orders(DOMAIN tables[n]) :
            files[n] = FileTemplate(TableFromToml(tables, n, tables[n], ord), ord)

\* two tables generated, one of them with a composite key and a third column
C3_Witness ==
    /\ Cardinality(generated) = 2
    /\ \E n \in generated :
          /\ Cardinality(DOMAIN derived[n].PrimaryKeys) = 2
          /\ Cardinality(DOMAIN derived[n].Fields) = 3

\* C4: when the run is over, every table whose rendering succeeds has its
\* file generated, also when the rendering of another table failed.
C4_FailureDoesNotAbort ==
    pc \in {"done", "fatal"} =>
        \A n \in DOMAIN tables : ~ExecuteFails([Name |-> n]) => n \in generated

\* the Write statement of the file of an upsert table
UpsertCall(n) == CHOOSE c \in WriteCalls(files[n]) : TRUE

UpsertShape(n) ==
    LET c == UpsertCall(n)
        T == derived[n]
        target == Between(c.sql, Lit(") ON CONFLICT ("), Lit(") DO UPDATE SET "))
        half == Len(c.args) \div 2
    IN  /\ Cardinality(WriteCalls(files[n])) = 1
        /\ c.sql[1] = Lit("INSERT INTO ")
        /\ Range(target) = DOMAIN T.PrimaryKeys
        /\ Len(target) = Cardinality(DOMAIN T.PrimaryKeys)
        /\ Len(c.args) = 2 * Cardinality(DOMAIN T.Fields)
        /\ SubSeq(c.args, 1, half) = SubSeq(c.args, half + 1, Len(c.args))
        /\ Range(c.args) = {Recv \o <<".">> \o DeclaredField(files[n], col) :
                              col \in DOMAIN T.Fields}

\* C6 as stated: the DO UPDATE SET list of an upsert Write holds exactly
\* the columns that are not primary keys.
C6_SetNonKeyColumns ==
    \A n \in generated :
        derived[n].Upsert =>
            /\ UpsertShape(n)
            /\ Range(EqColumns(UpsertCall(n).sql))
                   = DOMAIN derived[n].Fields \ DOMAIN derived[n].PrimaryKeys

\* C6 amended: the Write of an upsert table is one INSERT .. ON CONFLICT
\* (primaryKeys) DO UPDATE SET statement whose SET list holds every column
\* of the table, the primary keys included, each once, and whose arguments
\* are the full column set twice.
C6_SetAllColumns ==
    \A n \in generated :
        derived[n].Upsert =>
            /\ UpsertShape(n)
            /\ Range(EqColumns(UpsertCall(n).sql)) = DOMAIN derived[n].Fields
            /\ Len(EqColumns(UpsertCall(n).sql))
                   = Cardinality(DOMAIN derived[n].Fields)

\* an upsert table with a key and a non-key column has been generated
C6_Witness ==
    \E n \in generated :
        /\ derived[n].Upsert
        /\ DOMAIN derived[n].PrimaryKeys # {}
        /\ DOMAIN derived[n].Fields \ DOMAIN derived[n].PrimaryKeys # {}


\* the first letter in upper case
Capital(str) == IF str = <<>> THEN <<>> ELSE <<ToTitle(str[1])>> \o Tail(str)

WithoutID(c) == SubSeq(c, 1, Len(c) - 3)
Singular(n) == SubSeq(n, 1, Len(n) - 1)

PostsSchema ==
    (posts :> ((id :> int) @@ (user_id :> int) @@ (body :> text)))
    @@ (users :> (id :> int))

GetUserPosts == <<"G", "e", "t", "U", "s", "e", "r", "P", "o", "s", "t", "s">>
GetByUserPosts ==
    <<"G", "e", "t", "B", "y", "U", "s", "e", "r", "P", "o", "s", "t", "s">>
userID == <<"u", "s", "e", "r", "I", "D">>

\* the file of a table has one get-by-relation accessor per foreign key
\* column and none for another column
OnePerForeignKey(n) ==
    /\ NumFkFuncs(files[n]) = Cardinality(DOMAIN derived[n].ForeignKeys)
    /\ {f.param : f \in FkFuncs(files[n])}
           = {WithoutID(fk) \o ID : fk \in DOMAIN derived[n].ForeignKeys}

\* C9 as stated: rendering posts of the schema {posts: {id, user_id, body},
\* users: {id}} emits exactly the accessor GetByUserPosts(db, userID), and
\* every table gets one get-by-relation accessor per foreign key.
C9_GetByUserPosts ==
    /\ \A n \in generated : OnePerForeignKey(n)
    /\ (tables = PostsSchema /\ posts \in generated) =>
           FkFuncs(files[posts])
               = {[name |-> GetByUserPosts, param |-> userID]}

\* C9 amended: the accessor of that schema is GetUserPosts(db, userID); in
\* general the accessor of foreign key x_id of table ys is named
\* Get<X><Y>s and takes the parameter xID, one per foreign key.
C9_GetUserPosts ==
    /\ \A n \in generated :
          /\ OnePerForeignKey(n)
          /\ FkFuncs(files[n])
                 = {[name |-> Get \o Capital(WithoutID(fk))
                                  \o Capital(Singular(n)) \o <<"s">>,
                      param |-> WithoutID(fk) \o ID] :
                       fk \in DOMAIN derived[n].ForeignKeys}
    /\ (tables = PostsSchema /\ posts \in generated) =>
           FkFuncs(files[posts]) = {[name |-> GetUserPosts, param |-> userID]}

\* posts of the scenario schema has been generated
C9_Witness == tables = PostsSchema /\ posts \in generated

NumMarks(sql) == Cardinality({i \in 1..Len(sql) : sql[i] = Mark})

\* the parameter a getter declares for column c
ParamOf(c) == IF HasSuffix(c, SufID) THEN WithoutID(c) \o ID ELSE c

\* C10: in every statement of a generated file the number of placeholders
\* equals the number of bound arguments, and the i-th argument is the
\* record field (or the parameter) of the column the i-th placeholder
\* stands for.
C10_PlaceholdersMatchArguments ==
    \A n \in generated :
        \A c \in CallsOf(files[n]) :
            LET holes == HoleColumns(c.sql)
            IN  /\ Len(c.args) = NumMarks(c.sql)
                /\ Len(holes) = NumMarks(c.sql)
                /\ \A i \in 1..Len(holes) :
                      /\ holes[i] \in DOMAIN tables[n]
                      /\ c.args[i] =
                            IF c.open = OpenExec
                            THEN Recv \o <<".">> \o DeclaredField(files[n], holes[i])
                            ELSE ParamOf(holes[i])

\* a generated table with INSERT and UPDATE statements over three columns
\* and a generated upsert table with a composite key
C10_Witness ==
    /\ \E n \in generated :
          ~derived[n].Upsert /\ Cardinality(DOMAIN tables[n]) = 3
    /\ \E n \in generated :
          derived[n].Upsert /\ Cardinality(DOMAIN derived[n].PrimaryKeys) = 2

-----------------------------------------------------------------------------
(* SnakeToGocase on the identifiers up to MaxLen characters *)

Alphabet == {"i", "d", "a", "_"}
contest_id == <<"c", "o", "n", "t", "e", "s", "t", "_", "i", "d">>
name_ == <<"n", "a", "m", "e">>

Identifiers ==
    UNION {[1..k -> Alphabet] : k \in 0..MaxLen} \cup {contest_id, name_}

InitNaming ==
    /\ s \in Identifiers
    /\ export \in BOOLEAN
    /\ out = Unset
    /\ pc = "naming"
    /\ tables = EmptyMap
    /\ todo = {}
    /\ derived = EmptyMap
    /\ files = EmptyMap
    /\ generated = {}
    /\ tbl = Unset
    /\ rec = EmptyMap
    /\ log = <<>>
    /\ hook = Nil
    /\ ret = Nil

Transform ==
    /\ pc = "naming"
    /\ out = Unset
    /\ out' = SnakeToGocase(s, export)
    /\ UNCHANGED <<tables, pc, todo, derived, files, generated, s, export,
                   tbl, rec, log, hook, ret>>

NextNaming == Transform

SpecNaming == InitNaming /\ [][NextNaming]_vars

\* the underscore-separated segments of str, read off the positions of
\* its underscores
Cuts(str) == {0, Len(str) + 1} \cup {i \in 1..Len(str) : str[i] = "_"}
Cut(str, k) ==
    CHOOSE c \in Cuts(str) : Cardinality({d \in Cuts(str) : d < c}) = k - 1
NumSegments(str) == Cardinality(Cuts(str)) - 1
Segment(str, k) == SubSeq(str, Cut(str, k) + 1, Cut(str, k + 1) - 1)

RECURSIVE Concat(_)
Concat(list) == IF list = <<>> THEN <<>> ELSE Head(list) \o Concat(Tail(list))

ContestID == <<"C", "o", "n", "t", "e", "s", "t", "I", "D">>
contestID == <<"c", "o", "n", "t", "e", "s", "t", "I", "D">>
Name == <<"N", "a", "m", "e">>

Examples ==
    /\ (s = contest_id /\ export) => out = ContestID
    /\ (s = contest_id /\ ~export) => out = contestID
    /\ (s = name_ /\ export) => out = Name

\* C5 as stated: every segment equal to id is rendered ID whatever its
\* position, also the first one when exported is false; otherwise the first
\* segment is unchanged when exported is false and every other segment is
\* title-cased; the segments are concatenated.
C5_IDEverywhere ==
    out # Unset =>
        /\ out = Concat([k \in 1..NumSegments(s) |->
                            IF Segment(s, k) = id THEN ID
                            ELSE IF k = 1 /\ ~export THEN Segment(s, k)
                            ELSE Capital(Segment(s, k))])
        /\ Examples

\* C5 amended: the first segment is unchanged when exported is false, also
\* when it is id; every other segment (and the first when exported is
\* true) is rendered ID when it equals id and title-cased otherwise.
C5_FirstSegmentKept ==
    out # Unset =>
        /\ out = Concat([k \in 1..NumSegments(s) |->
                            IF k = 1 /\ ~export THEN Segment(s, k)
                            ELSE IF Segment(s, k) = id THEN ID
                            ELSE Capital(Segment(s, k))])
        /\ Examples

\* id_id has been transformed with exported false
C5_Witness ==
    /\ out # Unset
    /\ ~export
    /\ NumSegments(s) = 2
    /\ Segment(s, 1) = id
    /\ Segment(s, 2) = id

-----------------------------------------------------------------------------
(* The Write method the templates generate for table tbl, run on record   *)
(* rec against a storage that logs the statements it is given.            *)

\* the tables TableFromToml derives from the schemas and that render
WriteTables ==
    {TableFromToml(sch, n, sch[n], o) :
        <<sch, n, o>> \in
            {x \in Schemas \X (TableNames \ {NoName}) \X Orders(ColNames) :
                x[2] \in DOMAIN x[1]}}

Invalid == <<"invalid">>
Forbidden == <<"forbidden">>
ExecError == <<"exec failed">>
IDError == <<"no last insert id">>

\* errors.WithStack: nil stays nil, an error is wrapped
WithStack(err) == IF err = Nil THEN Nil ELSE <<"stack">> \o err

\* "return err" after r.Verify(), wrapping the error
ReturnWrapped(err) == WithStack(err)

\* "return err" after r.Verify()
ReturnVerify(err) == err

\* the generated file is fixed when Write runs: any iteration order
GenOrder == CHOOSE o \in Orders(ColNames) : TRUE

\* the value bound for the argument r.<Field>
ValueOf(arg) ==
    rec[CHOOSE c \in DOMAIN tbl.Fields : Recv \o <<".">> \o field(c) = arg]

Values(args) ==
    LET items == SelectSeq(args, LAMBDA tok : tok # Comma)
    IN  [i \in 1..Len(items) |-> ValueOf(items[i])]

\* one statement given to db.Exec, with its outcome
Exec(sql, args, err, lastID) ==
    [sql |-> sql, args |-> Values(args), err |-> err, lastID |-> lastID]

\* UpsertTemplate: Write of a table with Upsert
WriteUpsert(verr, err) ==
    /\ pc = "write"
    /\ tbl.Upsert
    /\ Len(log) < MaxWrites
    /\ hook' = verr
    /\ IF verr # Nil
       THEN /\ ret' = ReturnVerify(verr)
            /\ UNCHANGED <<rec, log>>
       ELSE /\ log' = Append(log, Exec(UpsertSQL(tbl, GenOrder),
                                       UpsertArgs(tbl, GenOrder), err, 0))
            /\ ret' = WithStack(err)
            /\ rec' = rec
    /\ UNCHANGED <<tables, pc, todo, derived, files, generated, s, export,
                   out, tbl>>

\* UpdateOrInsertTemplate: Write of a table without Upsert
WriteUpdateOrInsert(verr, err, lastID, iderr) ==
    /\ pc = "write"
    /\ ~tbl.Upsert
    /\ Len(log) < MaxWrites
    /\ hook' = verr
    /\ IF verr # Nil
       THEN /\ ret' = ReturnVerify(verr)
            /\ UNCHANGED <<rec, log>>
       ELSE IF HasIntID(tbl) /\ rec[id] = 0
       THEN /\ log' = Append(log, Exec(InsertSQL(tbl, GenOrder),
                                       InsertArgs(tbl, GenOrder), err,
                                       IF err = Nil /\ iderr = Nil
                                       THEN lastID ELSE 0))
            /\ IF err # Nil THEN ret' = WithStack(err) /\ rec' = rec
               ELSE IF iderr # Nil THEN ret' = WithStack(iderr) /\ rec' = rec
               ELSE ret' = Nil /\ rec' = [rec EXCEPT ![id] = lastID]
       ELSE /\ log' = Append(log, Exec(UpdateSQL(tbl, GenOrder),
                                       UpdateArgs(tbl, GenOrder), err, 0))
            /\ ret' = WithStack(err)
            /\ rec' = rec
    /\ UNCHANGED <<tables, pc, todo, derived, files, generated, s, export,
                   out, tbl>>

InitWrite ==
    /\ tbl \in WriteTables
    /\ rec \in {r \in [DOMAIN tbl.Fields -> 0..MaxId] :
                  \A c \in DOMAIN r : (c = id /\ tbl.Fields[c] = int) \/ r[c] = 1}
    /\ log = <<>>
    /\ hook = Nil
    /\ ret = Nil
    /\ pc = "write"
    /\ tables = EmptyMap
    /\ todo = {}
    /\ derived = EmptyMap
    /\ files = EmptyMap
    /\ generated = {}
    /\ s = <<>>
    /\ export = FALSE
    /\ out = Unset

NextWrite ==
    \/ \E verr \in {Nil, Invalid, Forbidden}, err \in {Nil, ExecError} :
          WriteUpsert(verr, err)
    \/ \E verr \in {Nil, Invalid, Forbidden}, err \in {Nil, ExecError},
          lastID \in 0..MaxId, iderr \in {Nil, IDError} :
          WriteUpdateOrInsert(verr, err, lastID, iderr)

SpecWrite == InitWrite /\ [][NextWrite]_vars


\* C7: Write runs the validation hook before any storage access: a Write
\* whose hook fails runs no statement, leaves the record unchanged and
\* returns the error of the hook as it is, and a statement runs only in a
\* Write whose hook passed (both templates).
C7_VerifyFirst ==
    [][/\ hook' # Nil => (log' = log /\ rec' = rec /\ ret' = hook')
       /\ log' # log => hook' = Nil]_vars

\* a Write of a table without Upsert failed its hook after a statement ran
C7_Witness ==
    /\ pc = "write"
    /\ ~tbl.Upsert
    /\ hook # Nil
    /\ ret = hook
    /\ Len(log) = 1

\* the tokens of txt after the first from
After(txt, from) == Between(txt, from, <<"no such token">>)

InsertShape(st) ==
    LET cols == Between(st.sql, Lit("("), Lit(") VALUES ("))
    IN  /\ st.sql[1] = Lit("INSERT INTO ")
        /\ st.sql[2] = tbl.Name
        /\ st.sql[Len(st.sql)] = Lit(")")
        /\ Range(cols) = DOMAIN tbl.Fields \ {id}
        /\ Len(cols) = Cardinality(DOMAIN tbl.Fields \ {id})

UpdateShape(st) ==
    LET set == EqColumns(Between(st.sql, Lit(" SET "), Lit(" WHERE ")))
        where == EqColumns(After(st.sql, Lit(" WHERE ")))
    IN  /\ st.sql[1] = Lit("UPDATE ")
        /\ st.sql[2] = tbl.Name
        /\ Range(set) = DOMAIN tbl.Fields
        /\ Len(set) = Cardinality(DOMAIN tbl.Fields)
        /\ Range(where) = DOMAIN tbl.PrimaryKeys
        /\ Len(where) = Cardinality(DOMAIN tbl.PrimaryKeys)

\* a Write of a table without Upsert that succeeds runs one statement: the
\* INSERT when the id is zero, and the id becomes the assigned one; the
\* UPDATE otherwise, and the record is unchanged
C8_Step ==
    (pc = "write" /\ ~tbl.Upsert /\ hook' = Nil /\ ret' = Nil /\ log' # log) =>
        /\ Len(log') = Len(log) + 1
        /\ SubSeq(log', 1, Len(log)) = log
        /\ LET st == log'[Len(log')]
           IN  IF rec[id] = 0
               THEN InsertShape(st) /\ rec' = [rec EXCEPT ![id] = st.lastID]
               ELSE UpdateShape(st) /\ rec' = rec

\* a successful INSERT that was assigned a non-zero id is followed, when
\* the next Write succeeds, by an UPDATE bound to that id
C8_Log ==
    (pc = "write" /\ ~tbl.Upsert) =>
        \A i \in 1..Len(log) - 1 :
            (/\ InsertShape(log[i])
             /\ log[i].err = Nil
             /\ log[i].lastID # 0
             /\ log[i + 1].err = Nil) =>
                /\ UpdateShape(log[i + 1])
                /\ log[i + 1].args[Len(log[i + 1].args)] = log[i].lastID

\* C8: for a table with upsertStrategy false a successful Write runs exactly
\* one statement, INSERT INTO table(all columns except id) when the id is
\* zero, writing the assigned id back, and UPDATE table SET all columns
\* WHERE primaryKeys otherwise; so two successful Writes of a fresh record
\* run one INSERT and then one UPDATE on the same id.
C8_InsertThenUpdate == [][C8_Step]_vars /\ []C8_Log

\* a fresh record of a three-column table was inserted, then updated
C8_Witness ==
    /\ pc = "write"
    /\ ~tbl.Upsert
    /\ Cardinality(DOMAIN tbl.Fields) = 3
    /\ Len(log) = 2
    /\ InsertShape(log[1]) /\ log[1].err = Nil /\ log[1].lastID # 0
    /\ UpdateShape(log[2]) /\ log[2].err = Nil
    /\ ret = Nil

=============================================================================
